---- MODULE Spec2Model ----
(***************************************************************************)
(* A model of the quiz solver of src/solver.py: solve_quiz and the text    *)
(* helpers it calls.                                                       *)
(*                                                                         *)
(* Python strings that the regular expressions scan (the rendered HTML,    *)
(* the decoded payload, their concatenation) are sequences of lexemes: a   *)
(* lexeme is a run of characters that no pattern of the program can split  *)
(* ("http://", "submit", one digit, one sign, one delimiter, ...).         *)
(* Floats are fixed-point integers in units of 1/Scale.                    *)
(***************************************************************************)
EXTENDS Integers, Sequences, FiniteSets, TLC

\* ------------------------------------------------------------------ bounds
\* Longest text (in lexemes) of the exhaustively enumerated documents.
MaxTextLen == 4
\* Longest list of hyperlinks of an enumerated document.
MaxLinks == 2
\* Fractional digits the fixed-point numbers keep; the number literals of the
\* modelled texts have at most one.
FracDigits == 2

\* ------------------------------------------------------ program constants
\* full_text[:2000]
ExcerptLimit == 2000
\* \{[\s\S]{20,5000}\}
JsonMinLen == 20
JsonMaxLen == 5000
\* "answer": 42 of the canned reply
CannedAnswer == 42

\* ---------------------------------------------------------- Python values
PyNone == [kind |-> "None"]
PyStr(s) == [kind |-> "str", s |-> s]
PyFloat(v) == [kind |-> "float", v |-> v]

\* Python truthiness of None, a str and a number.
Truthy(x) ==
    CASE x.kind = "None" -> FALSE
      [] x.kind = "str" -> x.s # <<>>
      [] x.kind = "float" -> x.v # 0
      [] OTHER -> TRUE

\* a or b
PyOr(a, b) == IF Truthy(a) THEN a ELSE b

\* Fixed-point unit.
Scale == 10 ^ FracDigits

\* ------------------------------------------------------------------ lexemes
Digits == {"5"}
Signs == {"-"}
SchemeLexemes == {"http://", "https://"}
\* \s ' " < > : the characters that end a URL match
Delimiters == {" ", "\n", "\"", "PAD"}
KeyLexemes == {"\"answer\":", "\"submit_url\":", "\"url\":"}

\* Number of characters of a lexeme. "PAD" is a run of ExcerptLimit - 1 blanks.
LexLen(lex) == IF lex = "PAD" THEN ExcerptLimit - 1 ELSE Len(lex)

RECURSIVE CharLen(_)
CharLen(text) ==
    IF text = <<>> THEN 0 ELSE LexLen(Head(text)) + CharLen(Tail(text))

\* str.lower() of one lexeme
LowerLex(lex) == IF lex = "SUBMIT" THEN "submit" ELSE lex

DigitVal(d) == IF d = "5" THEN 5 ELSE 0

\* ------------------------------------------------------------ string slicing
\* text[:n] : the lexemes wholly inside the first n characters, and the
\* number of characters taken from the lexeme the cut falls in.
RECURSIVE SlicePrefix(_, _)
SlicePrefix(text, n) ==
    IF text = <<>> \/ n <= 0 THEN [whole |-> <<>>, part |-> 0]
    ELSE IF LexLen(Head(text)) <= n
         THEN LET r == SlicePrefix(Tail(text), n - LexLen(Head(text)))
              IN  [whole |-> <<Head(text)>> \o r.whole, part |-> r.part]
         ELSE [whole |-> <<>>, part |-> n]

\* ------------------------------------------- extract_submit_url_from_text
\* Last index of the run of non-delimiter lexemes that starts at i (i - 1 if
\* the run is empty): [^\s'"<>]+ is greedy.
RECURSIVE UrlRunEnd(_, _)
UrlRunEnd(text, i) ==
    IF i > Len(text) \/ text[i] \in Delimiters THEN i - 1
    ELSE UrlRunEnd(text, i + 1)

\* re.findall(r"https?://[^\s'\"<>]+", text), scanning from lexeme i
RECURSIVE FindUrls(_, _)
FindUrls(text, i) ==
    IF i > Len(text) THEN <<>>
    ELSE IF text[i] \in SchemeLexemes /\ UrlRunEnd(text, i + 1) >= i + 1
         THEN <<SubSeq(text, i, UrlRunEnd(text, i + 1))>>
              \o FindUrls(text, UrlRunEnd(text, i + 1) + 1)
         ELSE FindUrls(text, i + 1)

\* "submit" in u.lower()
HasSubmit(u) == \E i \in 1..Len(u) : LowerLex(u[i]) = "submit"

\* Mutant: the preference for "submit" dropped.
ExtractFirstUrl(text) ==
    IF FindUrls(text, 1) # <<>> THEN FindUrls(text, 1)[1] ELSE <<>>

extract_submit_url_from_text(text) ==
    LET urls == FindUrls(text, 1)
        withSubmit == {i \in 1..Len(urls) : HasSubmit(urls[i])}
    IN  IF withSubmit # {}
        THEN urls[CHOOSE i \in withSubmit : \A j \in withSubmit : i <= j]
        ELSE IF urls # <<>> THEN urls[1] ELSE <<>>

\* ---------------------------------------------------- sum_numbers_from_text
\* text.replace(",", "")
RECURSIVE StripCommas(_)
StripCommas(text) ==
    IF text = <<>> THEN <<>>
    ELSE IF Head(text) = "," THEN StripCommas(Tail(text))
         ELSE <<Head(text)>> \o StripCommas(Tail(text))

\* Last index of the run of digits that starts at i (i - 1 if it is empty).
RECURSIVE DigitRunEnd(_, _)
DigitRunEnd(t, i) ==
    IF i > Len(t) \/ t[i] \notin Digits THEN i - 1
    ELSE DigitRunEnd(t, i + 1)

\* Value of a run of digits read as an integer.
RECURSIVE DigitsValue(_)
DigitsValue(ds) ==
    IF ds = <<>> THEN 0
    ELSE 10 * DigitsValue(SubSeq(ds, 1, Len(ds) - 1)) + DigitVal(ds[Len(ds)])

\* float(n) of a literal [sign] digits* [. digits+], in units of 1/Scale
FloatOfLiteral(n) ==
    LET neg == n # <<>> /\ n[1] = "-"
        body == IF n # <<>> /\ n[1] \in Signs THEN Tail(n) ELSE n
        ip == DigitRunEnd(body, 1)
        frac == IF ip < Len(body) THEN SubSeq(body, ip + 2, Len(body)) ELSE <<>>
        mag == DigitsValue(SubSeq(body, 1, ip)) * Scale
               + DigitsValue(frac) * (Scale \div (10 ^ Len(frac)))
    IN  IF neg THEN 0 - mag ELSE mag

\* First alternative [-+]?\d*\.\d+ at position i: the index where the match
\* ends, 0 if it does not match there.
DecimalMatchEnd(t, i) ==
    LET s == IF t[i] \in Signs THEN i + 1 ELSE i
        d == DigitRunEnd(t, s)
    IN  IF d + 2 <= Len(t) /\ t[d + 1] = "." /\ t[d + 2] \in Digits
        THEN DigitRunEnd(t, d + 2)
        ELSE 0

\* Second alternative \d+ at position i.
IntegerMatchEnd(t, i) == IF t[i] \in Digits THEN DigitRunEnd(t, i) ELSE 0

\* One match attempt of [-+]?\d*\.\d+|\d+ at position i.
NumberMatchEnd(t, i) ==
    IF DecimalMatchEnd(t, i) # 0 THEN DecimalMatchEnd(t, i)
    ELSE IntegerMatchEnd(t, i)

\* re.findall(r"[-+]?\d*\.\d+|\d+", t), scanning from lexeme i
RECURSIVE FindNumbers(_, _)
FindNumbers(t, i) ==
    IF i > Len(t) THEN <<>>
    ELSE IF NumberMatchEnd(t, i) # 0
         THEN <<SubSeq(t, i, NumberMatchEnd(t, i))>>
              \o FindNumbers(t, NumberMatchEnd(t, i) + 1)
         ELSE FindNumbers(t, i + 1)

RECURSIVE SumFloats(_)
SumFloats(nums) ==
    IF nums = <<>> THEN 0
    ELSE FloatOfLiteral(Head(nums)) + SumFloats(Tail(nums))

sum_numbers_from_text(text) ==
    LET nums == FindNumbers(StripCommas(text), 1)
    IN  IF nums = <<>> THEN PyNone ELSE PyFloat(SumFloats(nums))

\* ------------------------------------------------ _first_url_from_jsonlike
\* re.search(r"\{[\s\S]{20,5000}\}", text): the leftmost "{" that some "}"
\* closes with 20 to 5000 characters in between, up to the last such "}".
JsonClosers(text, i) ==
    {j \in (i + 1)..Len(text) :
        /\ text[j] = "}"
        /\ CharLen(SubSeq(text, i + 1, j - 1)) >= JsonMinLen
        /\ CharLen(SubSeq(text, i + 1, j - 1)) <= JsonMaxLen}

JsonOpeners(text) ==
    {i \in 1..Len(text) : text[i] = "{" /\ JsonClosers(text, i) # {}}

\* m.group(0), or <<>> when the search finds nothing
JsonLikeMatch(text) ==
    IF JsonOpeners(text) = {} THEN <<>>
    ELSE LET i == CHOOSE a \in JsonOpeners(text) :
                      \A b \in JsonOpeners(text) : a <= b
             j == CHOOSE a \in JsonClosers(text, i) :
                      \A b \in JsonClosers(text, i) : a >= b
         IN  SubSeq(text, i, j)

JsonWhitespace == {" ", "\n", "PAD"}
KeyOf(lex) ==
    CASE lex = "\"answer\":" -> "answer"
      [] lex = "\"submit_url\":" -> "submit_url"
      [] lex = "\"url\":" -> "url"
      [] OTHER -> "other"

RECURSIVE SkipWs(_, _)
SkipWs(t, i) ==
    IF i <= Len(t) /\ t[i] \in JsonWhitespace THEN SkipWs(t, i + 1) ELSE i

RECURSIVE StringEnd(_, _)
StringEnd(t, i) ==
    IF i > Len(t) \/ t[i] = "\"" THEN i ELSE StringEnd(t, i + 1)

JsonFail == [ok |-> FALSE]

\* One JSON value (a string, a number or null) starting at lexeme i.
ParseValue(t, i) ==
    IF i > Len(t) THEN JsonFail
    ELSE IF t[i] = "\""
    THEN LET e == StringEnd(t, i + 1)
         IN  IF e > Len(t) \/ (\E k \in (i + 1)..(e - 1) : t[k] = "\n")
             THEN JsonFail
             ELSE [ok |-> TRUE, val |-> PyStr(SubSeq(t, i + 1, e - 1)),
                   next |-> e + 1]
    ELSE IF t[i] = "null"
    THEN [ok |-> TRUE, val |-> PyNone, next |-> i + 1]
    ELSE LET s == IF t[i] = "-" THEN i + 1 ELSE i
             d == DigitRunEnd(t, s)
             f == DigitRunEnd(t, d + 2)
         IN  IF d < s THEN JsonFail
             ELSE IF d + 1 <= Len(t) /\ t[d + 1] = "."
             THEN IF f < d + 2 THEN JsonFail
                  ELSE [ok |-> TRUE,
                        val |-> PyFloat(FloatOfLiteral(SubSeq(t, i, f))),
                        next |-> f + 1]
             ELSE [ok |-> TRUE,
                   val |-> PyFloat(FloatOfLiteral(SubSeq(t, i, d))),
                   next |-> d + 1]

\* The members of an object from the key at lexeme i on; acc holds the
\* members read so far (a later duplicate key wins, as in a dict).
RECURSIVE ParseMembers(_, _, _)
ParseMembers(t, i, acc) ==
    IF i > Len(t) \/ t[i] \notin KeyLexemes THEN JsonFail
    ELSE LET v == ParseValue(t, SkipWs(t, i + 1))
         IN  IF ~v.ok THEN JsonFail
             ELSE LET acc2 == (KeyOf(t[i]) :> v.val) @@ acc
                      k == SkipWs(t, v.next)
                  IN  IF k > Len(t) THEN JsonFail
                      ELSE IF t[k] = ","
                      THEN ParseMembers(t, SkipWs(t, k + 1), acc2)
                      ELSE IF t[k] = "}" /\ k = Len(t)
                      THEN [ok |-> TRUE, obj |-> acc2]
                      ELSE JsonFail

\* json.loads(m.group(0)): ok is FALSE where json.loads raises.
JsonLoads(t) ==
    IF t = <<>> \/ t[1] # "{" THEN JsonFail
    ELSE IF SkipWs(t, 2) = Len(t) /\ t[Len(t)] = "}"
    THEN [ok |-> TRUE, obj |-> <<>>]
    ELSE ParseMembers(t, SkipWs(t, 2), <<>>)

UrlKeys == <<"submit", "submit_url", "url", "endpoint">>

_first_url_from_jsonlike(text) ==
    LET m == JsonLikeMatch(text)
        r == JsonLoads(m)
        present == {k \in 1..Len(UrlKeys) : UrlKeys[k] \in DOMAIN r.obj}
    IN  IF m = <<>> THEN PyNone
        ELSE IF ~r.ok THEN PyNone
        ELSE IF present = {} THEN PyNone
        ELSE r.obj[UrlKeys[CHOOSE k \in present : \A l \in present : k <= l]]

\* Lines 153-161 of solve_quiz: the "answer" member of the JSON object of
\* the decoded payload, or of the HTML when the payload has no brace block.
ParsedAnswerFromJson(decodedText, htmlText) ==
    LET m == IF JsonLikeMatch(decodedText) # <<>>
             THEN JsonLikeMatch(decodedText) ELSE JsonLikeMatch(htmlText)
        r == JsonLoads(m)
    IN  IF m = <<>> THEN PyNone
        ELSE IF ~r.ok THEN PyNone
        ELSE IF "answer" \in DOMAIN r.obj THEN r.obj["answer"]
        ELSE PyNone

\* --------------------------------------------------- decode_atob_from_html
\* The atob('...') literal of a document is [found, valid, payload]: whether
\* ATOB_RE matches, whether base64.b64decode accepts the literal, and the
\* text the literal decodes to.
NoAtob == [found |-> FALSE, valid |-> FALSE, payload |-> <<>>]
Atob(payload) == [found |-> TRUE, valid |-> TRUE, payload |-> payload]
BadAtob == [found |-> TRUE, valid |-> FALSE, payload |-> <<>>]

decode_atob_from_html(html) ==
    IF ~html.atob.found THEN <<>>
    ELSE IF html.atob.valid THEN html.atob.payload
    ELSE <<>>

\* ------------------------------------------------------ float(str) of Python
\* Whether float() accepts the string: [sign] digits [. digits*] or
\* [sign] . digits, blanks around it ignored.
RECURSIVE StripBlanks(_)
StripBlanks(s) ==
    IF s # <<>> /\ Head(s) \in JsonWhitespace THEN StripBlanks(Tail(s))
    ELSE IF s # <<>> /\ s[Len(s)] \in JsonWhitespace
    THEN StripBlanks(SubSeq(s, 1, Len(s) - 1))
    ELSE s

IsFloatLiteral(s) ==
    LET t == StripBlanks(s)
        b == IF t # <<>> /\ t[1] \in Signs THEN Tail(t) ELSE t
        ip == DigitRunEnd(b, 1)
    IN  \/ ip >= 1 /\ ip = Len(b)
        \/ /\ ip + 1 <= Len(b)
           /\ b[ip + 1] = "."
           /\ DigitRunEnd(b, ip + 2) = Len(b)
           /\ Len(b) >= 2

\* Lines 256-261: float(parsed_answer_from_json), or the value itself when
\* float() raises.
CoerceJsonAnswer(x) ==
    IF x.kind = "float" THEN x
    ELSE IF x.kind = "str" /\ IsFloatLiteral(x.s)
    THEN PyFloat(FloatOfLiteral(StripBlanks(x.s)))
    ELSE x

\* ------------------------------------------------------- clean_link_candidate
\* A hyperlink is [netloc, stem, ext, query, frag]: "//netloc" or nothing,
\* the path up to its extension, the extension, "?..." or nothing, "#..." or
\* nothing. A URL is the sequence <<scheme, host, path>>.
ExtLower(ext) ==
    CASE ext = ".CSV" -> ".csv"
      [] ext = ".PDF" -> ".pdf"
      [] OTHER -> ext

FileExtensions == {".csv", ".pdf", ".xlsx"}

\* l.lower().split("?")[0].endswith(e) for a raw href: without a query the
\* fragment is the end of the string.
HrefEndsWith(l, e) == ExtLower(l.ext) = e /\ (l.query # "" \/ l.frag = "")

\* urljoin raises ValueError on a netloc with an unmatched bracket.
UrlJoinRaises(l) == l.netloc = "[bad"

clean_link_candidate(link, base_url) ==
    [origin |-> IF link.netloc = "" THEN <<base_url[1], base_url[2]>>
                ELSE <<base_url[1], link.netloc>>,
     stem |-> link.stem, ext |-> link.ext, query |-> link.query, frag |-> ""]

NoLink == [origin |-> <<>>, stem |-> "", ext |-> "", query |-> "", frag |-> ""]

\* Lines 166-175: the index of the first link with a file extension, 0 if none.
FirstFileLinkIndex(links) ==
    LET hits == {i \in 1..Len(links) :
                    \E e \in FileExtensions : HrefEndsWith(links[i], e)}
    IN  IF hits = {} THEN 0 ELSE CHOOSE i \in hits : \A j \in hits : i <= j

\* file_link and file_link.lower().split("?")[0].endswith(e)
FileLinkIs(fl, e) == fl # NoLink /\ HrefEndsWith(fl, e)

\* -------------------------------------------------------------- DataFrames
\* A DataFrame is a sequence of columns [name, numeric, sum]: numeric says
\* whether pandas gave the column a number dtype, sum is the sum of its cells.
\* float(df[c].sum()) of an object column raises (the sum is the
\* concatenation of its strings).
ColumnAliases == <<"value", "Value", "val", "amount", "Amount", "total">>

ColumnIndex(df, name) ==
    LET hits == {i \in 1..Len(df) : df[i].name = name}
    IN  IF hits = {} THEN 0 ELSE CHOOSE i \in hits : \A j \in hits : i <= j

\* The for loop over the column names: the first alias, in the order of the
\* list, that names a column whose sum float() accepts.
SumAliasColumn(df) ==
    LET good == {k \in 1..Len(ColumnAliases) :
                    /\ ColumnIndex(df, ColumnAliases[k]) # 0
                    /\ df[ColumnIndex(df, ColumnAliases[k])].numeric}
        k == CHOOSE a \in good : \A b \in good : a <= b
    IN  IF good = {} THEN PyNone
        ELSE PyFloat(df[ColumnIndex(df, ColumnAliases[k])].sum * Scale)

\* df.select_dtypes(include="number").columns[0]
SumFirstNumericColumn(df) ==
    LET nums == {i \in 1..Len(df) : df[i].numeric}
    IN  IF nums = {} THEN PyNone
        ELSE PyFloat(df[CHOOSE i \in nums : \A j \in nums : i <= j].sum * Scale)

\* Lines 187-198 (and 241-251): the answer a DataFrame gives, None if none.
SumDataFrame(df) ==
    IF SumAliasColumn(df) # PyNone THEN SumAliasColumn(df)
    ELSE SumFirstNumericColumn(df)

\* ---------------------------------------------------------------- PDF text
\* "\n".join(pages_text), a page whose extract_text raises left out
RECURSIVE JoinPages(_)
JoinPages(pages) ==
    IF pages = <<>> THEN <<>>
    ELSE IF ~Head(pages).ok THEN JoinPages(Tail(pages))
    ELSE IF \A i \in 2..Len(pages) : ~pages[i].ok THEN Head(pages).text
    ELSE Head(pages).text \o <<"\n">> \o JoinPages(Tail(pages))

\* Lines 207-225: the text of a fetched PDF [readable, pages, raw]; readable
\* is FALSE when PdfReader is missing or raises on the bytes, and raw is
\* b.decode("utf-8", errors="ignore").
PdfText(pdf) ==
    LET text == IF pdf.readable THEN JoinPages(pdf.pages) ELSE <<>>
    IN  IF text # <<>> THEN text ELSE pdf.raw

\* ------------------------------------------------------------ the outcomes
\* Lines 118-132: the reply for a URL that contains "example-quiz.com".
IsCannedUrl(u) == \E i \in 1..Len(u) : u[i] = "example-quiz.com"

CannedOutcome(e, s, u) ==
    [success |-> TRUE,
     submit_url |-> PyStr(<<"https://", "example-quiz.com", "/submit">>),
     answer_payload |-> [email |-> e, secret |-> s, url |-> u,
                         answer |-> PyFloat(CannedAnswer * Scale)],
     submit_response |-> [status |-> "received", score |-> "pending"]]

\* Line 144
RenderFailureOutcome ==
    [success |-> FALSE, message |-> "Failed to render page"]

\* Mutant: the excerpt not cut.
DerivationFailureWholeText(su, ft) ==
    [success |-> FALSE,
     message |-> "Could not derive an answer automatically with default heuristics.",
     found_submit_url |-> su,
     sample_text_excerpt |-> SlicePrefix(ft, CharLen(ft))]

\* Lines 270-276
DerivationFailureOutcome(su, ft) ==
    [success |-> FALSE,
     message |-> "Could not derive an answer automatically with default heuristics.",
     found_submit_url |-> su,
     sample_text_excerpt |-> SlicePrefix(ft, ExcerptLimit)]

\* Mutant: email and secret exchanged.
AnswerPayloadSwapped(e, s, u, a) ==
    [email |-> s, secret |-> e, url |-> u, answer |-> a]

\* Lines 279-284
AnswerPayload(e, s, u, a) ==
    [email |-> e, secret |-> s, url |-> u, answer |-> a]

\* Lines 286-291
NoSubmitUrlOutcome(payload) ==
    [success |-> FALSE, message |-> "No submit URL detected",
     answer_payload |-> payload]

\* Mutant: the payload left out of the failure.
PostFailureWithoutPayload(payload) ==
    [success |-> FALSE, message |-> "Failed to POST answer"]

\* Line 301
PostFailureOutcome(payload) ==
    [success |-> FALSE, message |-> "Failed to POST answer",
     answer_payload |-> payload]

\* Lines 303-308
SuccessOutcome(su, payload, response) ==
    [success |-> TRUE, submit_url |-> su, answer_payload |-> payload,
     submit_response |-> response]

\* Mutant: the exception of client.post not caught as a failure.
PostOutcomeIgnoringFailure(r, su, payload) == SuccessOutcome(su, payload, r)

\* Lines 294-308: what the POST's result r makes solve_quiz return.
PostOutcome(r, su, payload) ==
    IF r = "raises" THEN PostFailureOutcome(payload)
    ELSE SuccessOutcome(su, payload, r)

\* ------------------------------------------------------ the derivation paths
\* Line 150
ResolveSubmitUrl(decodedText, htmlText, fullText) ==
    PyOr(PyOr(_first_url_from_jsonlike(decodedText),
              _first_url_from_jsonlike(htmlText)),
         PyStr(extract_submit_url_from_text(fullText)))

\* Line 147
FullText(htmlText, decodedText) == htmlText \o <<"\n">> \o decodedText

\* Line 181
CsvPathRuns(fl) == FileLinkIs(fl, ".csv")

\* Lines 182-201: resp is what fetching and parsing the link gives.
CsvAnswer(ans, resp) ==
    IF ~resp.ok THEN ans
    ELSE IF SumAliasColumn(resp.df) # PyNone THEN SumAliasColumn(resp.df)
    ELSE IF ans = PyNone /\ SumFirstNumericColumn(resp.df) # PyNone
    THEN SumFirstNumericColumn(resp.df)
    ELSE ans

\* Line 204
PdfPathRuns(fl, ans) == FileLinkIs(fl, ".pdf") /\ ans = PyNone

\* Lines 205-231
PdfAnswer(ans, resp) ==
    IF ~resp.ok THEN ans
    ELSE IF PdfText(resp.pdf) = <<>> THEN ans
    ELSE IF sum_numbers_from_text(PdfText(resp.pdf)) # PyNone
    THEN sum_numbers_from_text(PdfText(resp.pdf))
    ELSE ans

\* Mutant: the test "answer is None" dropped.
TablePathRunsAlways(ans, tables) == tables # <<>>

\* Lines 234-236
TablePathRuns(ans, tables) == ans = PyNone /\ tables # <<>>

\* Lines 237-253: t is the first table, parsed is FALSE when pd.read_html
\* raises on it.
TableAnswer(ans, t) ==
    IF ~t.parsed THEN ans
    ELSE IF SumAliasColumn(t.df) # PyNone THEN SumAliasColumn(t.df)
    ELSE IF ans = PyNone /\ SumFirstNumericColumn(t.df) # PyNone
    THEN SumFirstNumericColumn(t.df)
    ELSE ans

\* Line 256
JsonPathRuns(ans, parsed) == ans = PyNone /\ parsed # PyNone

\* Line 264
NumericPathRuns(ans) == ans = PyNone

\* Lines 265-267
NumericAnswer(ans, decodedText, htmlText) ==
    LET s == sum_numbers_from_text(
                 IF decodedText # <<>> THEN decodedText ELSE htmlText)
    IN  IF s # PyNone THEN s ELSE ans

\* --------------------------------------------------------------- the inputs
SeqsUpTo(S, n) == UNION {[1..k -> S] : k \in 0..n}

Schemes == {"http://", "https://"}
Urls == {<<"https://", "quiz.test", "/q">>,
         <<"http://", "quiz.test", "/q">>,
         <<"https://", "example-quiz.com", "/q">>}
Credentials == {<<"a@x.test", "s1">>, <<"b@x.test", "s2">>}

Href(netloc, ext, query, frag) ==
    [netloc |-> netloc, stem |-> "/data", ext |-> ext, query |-> query,
     frag |-> frag]
Hrefs == {Href("", ".CSV", "?v=1", ""), Href("", ".pdf", "", ""),
          Href("", ".xlsx", "", ""), Href("[bad", ".csv", "", "")}
LinkLists == SeqsUpTo(Hrefs, MaxLinks)

Column(name, numeric, sum) == [name |-> name, numeric |-> numeric, sum |-> sum]
DataFrames ==
    {<<Column("amount", TRUE, 60)>>,
     <<Column("id", TRUE, 3), Column("sum", TRUE, 10)>>,
     <<Column("total", TRUE, 7), Column("value", FALSE, 0),
       Column("Value", TRUE, 9)>>,
     <<Column("label", FALSE, 0)>>}
FetchError == [ok |-> FALSE]
CsvResponses == {FetchError} \cup {[ok |-> TRUE, df |-> d] : d \in DataFrames}

PdfPage(ok, text) == [ok |-> ok, text |-> text]
PdfResponses ==
    {FetchError,
     [ok |-> TRUE,
      pdf |-> [readable |-> TRUE,
               pages |-> <<PdfPage(TRUE, <<"5", ".", "5">>), PdfPage(FALSE, <<>>),
                           PdfPage(TRUE, <<"5">>)>>,
               raw |-> <<"5", "5", "5">>]],
     [ok |-> TRUE, pdf |-> [readable |-> FALSE, pages |-> <<>>,
                             raw |-> <<"-", ".", "5">>]],
     [ok |-> TRUE, pdf |-> [readable |-> TRUE, pages |-> <<PdfPage(TRUE, <<>>)>>,
                             raw |-> <<>>]]}

TableLists ==
    {<<>>,
     <<[parsed |-> TRUE, df |-> <<Column("n", TRUE, 4)>>]>>,
     <<[parsed |-> FALSE, df |-> <<>>],
       [parsed |-> TRUE, df |-> <<Column("amount", TRUE, 60)>>]>>}

\* "raises": client.post raises; otherwise the body of the response, parsed
\* by r.json() or, when that raises, reported as status code and text.
PostResults == {"raises", "json body", "status code and text"}

JsonWithHintAndAnswer ==
    <<"{", "\"submit_url\":", "\"", "https://", "x", "/", "submit", "\"", ",",
      "\"answer\":", "5", "}">>
JsonWithStringAnswer ==
    <<"{", "\"url\":", "\"", "\"", ",", "PAD", "\"answer\":", "\"", "x", "\"", "}">>
JsonWithNullAnswer == <<"{", "PAD", "\"answer\":", "null", "}">>
JsonWithNumberUrl == <<"{", "PAD", "\"url\":", "5", "}">>

PlainUrlThenSubmitUrl == <<"https://", "x", " ", "http://", "SUBMIT">>
HtmlTexts ==
    {PlainUrlThenSubmitUrl,
     <<"PAD", "5", "5">>,
     JsonWithStringAnswer}
Atobs ==
    {NoAtob, BadAtob, Atob(<<"-", "5">>), Atob(JsonWithHintAndAnswer),
     Atob(JsonWithNullAnswer), Atob(JsonWithNumberUrl)}

Doc(text, atob, links, tables) ==
    [text |-> text, atob |-> atob, links |-> links, tables |-> tables]
NoDoc == Doc(<<>>, NoAtob, <<>>, <<>>)

\* The documents of the pipeline runs.
Pages ==
    {Doc(t, a, l, tb) : t \in HtmlTexts, a \in Atobs, l \in LinkLists,
                        tb \in TableLists}

\* The documents of the text runs: every HTML text and decoded payload of
\* MaxTextLen lexemes together, without links or tables.
TextAlphabet == {"http://", " ", "submit", "SUBMIT", "5"}
TextDocs ==
    UNION {{Doc(h, IF d = <<>> THEN NoAtob ELSE Atob(d), <<>>, <<>>) :
                d \in SeqsUpTo(TextAlphabet, MaxTextLen - Len(h))} :
           h \in SeqsUpTo(TextAlphabet, MaxTextLen)}

\* ---------------------------------------------------------------- the state
VARIABLES
    url, email, secret,        \* the arguments of solve_quiz
    page,                      \* the document the site serves at url
    serverUp,                  \* the schemes on which the site renders the page
    pc,                        \* where the run of solve_quiz is
    html, decoded, full_text,  \* locals of solve_quiz
    submit_url, parsed_answer_from_json, file_link, answer, answer_payload,
    csv_resp,                  \* what the CSV fetch returned, if it ran
    outcome,                   \* the dict solve_quiz returned
    renders,                   \* the URLs handed to fetch_rendered_html
    posts,                     \* the POST requests made
    tried,                     \* the derivation paths whose body ran, in order
    source                     \* the path that set answer

vars == <<url, email, secret, page, serverUp, pc, html, decoded, full_text,
          submit_url, parsed_answer_from_json, file_link, answer,
          answer_payload, csv_resp, outcome, renders, posts, tried, source>>

inputs == <<url, email, secret, page, serverUp>>
NoOutcome == [returned |-> FALSE]
NoPayload == [built |-> FALSE]
NoResponse == [fetched |-> FALSE]

Locals ==
    /\ pc = "start"
    /\ html = NoDoc
    /\ decoded = <<>>
    /\ full_text = <<>>
    /\ submit_url = PyNone
    /\ parsed_answer_from_json = PyNone
    /\ file_link = NoLink
    /\ answer = PyNone
    /\ answer_payload = NoPayload
    /\ csv_resp = NoResponse
    /\ outcome = NoOutcome
    /\ renders = <<>>
    /\ posts = <<>>
    /\ tried = <<>>
    /\ source = "none"

Init ==
    /\ url \in Urls
    /\ \E c \in Credentials : email = c[1] /\ secret = c[2]
    /\ page \in Pages
    /\ serverUp \in SUBSET Schemes
    /\ Locals

\* The text runs: one caller; every short text on a site that is up, and the
\* documents with links and tables on every site.
InitText ==
    /\ email = "a@x.test" /\ secret = "s1"
    /\ \/ /\ url = <<"https://", "quiz.test", "/q">>
          /\ serverUp = Schemes
          /\ page \in TextDocs
       \/ /\ url \in Urls
          /\ serverUp \in SUBSET Schemes
          /\ page \in {p \in Pages : p.text = PlainUrlThenSubmitUrl
                                      /\ p.atob = NoAtob}
    /\ Locals

\* Lines 118-132
Shortcut ==
    /\ pc = "start"
    /\ IsCannedUrl(url)
    /\ outcome' = CannedOutcome(email, secret, url)
    /\ pc' = "done"
    /\ UNCHANGED <<inputs, html, decoded, full_text, submit_url,
                   parsed_answer_from_json, file_link, answer, answer_payload,
                   csv_resp, renders, posts, tried, source>>

\* fetch_rendered_html(url) returns the page when the site renders on the
\* scheme of url and raises otherwise.
fetch_rendered_html(u) ==
    IF u[1] \in serverUp THEN [ok |-> TRUE, content |-> page] ELSE [ok |-> FALSE]

\* Lines 141-144
Render ==
    /\ pc = "start"
    /\ ~IsCannedUrl(url)
    /\ renders' = Append(renders, url)
    /\ IF fetch_rendered_html(url).ok
       THEN /\ html' = fetch_rendered_html(url).content
            /\ pc' = "parse"
            /\ UNCHANGED outcome
       ELSE /\ outcome' = RenderFailureOutcome
            /\ pc' = "done"
            /\ UNCHANGED html
    /\ UNCHANGED <<inputs, decoded, full_text, submit_url,
                   parsed_answer_from_json, file_link, answer, answer_payload,
                   csv_resp, posts, tried, source>>

\* Lines 146-161
Parse ==
    /\ pc = "parse"
    /\ decoded' = decode_atob_from_html(html)
    /\ full_text' = FullText(html.text, decoded')
    /\ submit_url' = ResolveSubmitUrl(decoded', html.text, full_text')
    /\ parsed_answer_from_json' = ParsedAnswerFromJson(decoded', html.text)
    /\ pc' = "links"
    /\ UNCHANGED <<inputs, html, file_link, answer, answer_payload, csv_resp,
                   outcome, renders, posts, tried, source>>

\* Lines 164-175. The ValueError of urljoin is caught nowhere in solve_quiz:
\* the run ends with the exception.
FindFileLink ==
    /\ pc = "links"
    /\ LET i == FirstFileLinkIndex(html.links)
       IN  IF i = 0
           THEN pc' = "csv" /\ UNCHANGED file_link
           ELSE IF UrlJoinRaises(html.links[i])
           THEN pc' = "raised" /\ UNCHANGED file_link
           ELSE /\ file_link' = clean_link_candidate(html.links[i], url)
                /\ pc' = "csv"
    /\ UNCHANGED <<inputs, html, decoded, full_text, submit_url,
                   parsed_answer_from_json, answer, answer_payload, csv_resp,
                   outcome, renders, posts, tried, source>>

\* What a derivation path leaves behind: the answer, the path in tried, and
\* the path as source of the answer if it changed the answer.
Derived(path, newAnswer) ==
    /\ answer' = newAnswer
    /\ tried' = Append(tried, path)
    /\ source' = IF newAnswer # answer THEN path ELSE source

\* Lines 180-201
CsvPath ==
    /\ pc = "csv"
    /\ IF CsvPathRuns(file_link)
       THEN \E resp \in CsvResponses :
                /\ csv_resp' = resp
                /\ Derived("csv", CsvAnswer(answer, resp))
       ELSE UNCHANGED <<answer, tried, source, csv_resp>>
    /\ pc' = "pdf"
    /\ UNCHANGED <<inputs, html, decoded, full_text, submit_url,
                   parsed_answer_from_json, file_link, answer_payload,
                   outcome, renders, posts>>

\* Lines 203-231
PdfPath ==
    /\ pc = "pdf"
    /\ IF PdfPathRuns(file_link, answer)
       THEN \E resp \in PdfResponses : Derived("pdf", PdfAnswer(answer, resp))
       ELSE UNCHANGED <<answer, tried, source>>
    /\ pc' = "table"
    /\ UNCHANGED <<inputs, html, decoded, full_text, submit_url,
                   parsed_answer_from_json, file_link, answer_payload,
                   csv_resp, outcome, renders, posts>>

\* Lines 233-253
TablePath ==
    /\ pc = "table"
    /\ IF TablePathRuns(answer, html.tables)
       THEN Derived("table", TableAnswer(answer, html.tables[1]))
       ELSE UNCHANGED <<answer, tried, source>>
    /\ pc' = "json"
    /\ UNCHANGED <<inputs, html, decoded, full_text, submit_url,
                   parsed_answer_from_json, file_link, answer_payload,
                   csv_resp, outcome, renders, posts>>

\* Lines 255-261
JsonAnswerPath ==
    /\ pc = "json"
    /\ IF JsonPathRuns(answer, parsed_answer_from_json)
       THEN Derived("json", CoerceJsonAnswer(parsed_answer_from_json))
       ELSE UNCHANGED <<answer, tried, source>>
    /\ pc' = "sum"
    /\ UNCHANGED <<inputs, html, decoded, full_text, submit_url,
                   parsed_answer_from_json, file_link, answer_payload,
                   csv_resp, outcome, renders, posts>>

\* Lines 263-267
NumericSumPath ==
    /\ pc = "sum"
    /\ IF NumericPathRuns(answer)
       THEN Derived("sum", NumericAnswer(answer, decoded, html.text))
       ELSE UNCHANGED <<answer, tried, source>>
    /\ pc' = "finish"
    /\ UNCHANGED <<inputs, html, decoded, full_text, submit_url,
                   parsed_answer_from_json, file_link, answer_payload,
                   csv_resp, outcome, renders, posts>>

\* Lines 269-276
GiveUp ==
    /\ pc = "finish"
    /\ answer = PyNone
    /\ outcome' = DerivationFailureOutcome(submit_url, full_text)
    /\ pc' = "done"
    /\ UNCHANGED <<inputs, html, decoded, full_text, submit_url,
                   parsed_answer_from_json, file_link, answer, answer_payload,
                   csv_resp, renders, posts, tried, source>>

\* Lines 278-291
NoSubmitUrl ==
    /\ pc = "finish"
    /\ answer # PyNone
    /\ ~Truthy(submit_url)
    /\ answer_payload' = AnswerPayload(email, secret, url, answer)
    /\ outcome' = NoSubmitUrlOutcome(answer_payload')
    /\ pc' = "done"
    /\ UNCHANGED <<inputs, html, decoded, full_text, submit_url,
                   parsed_answer_from_json, file_link, answer, csv_resp,
                   renders, posts, tried, source>>

\* Lines 278-284 and 293-308: client.post raises, or answers with a body.
\* A submit_url that is no string (a number of the JSON object) makes
\* client.post raise before any request leaves.
Post ==
    /\ pc = "finish"
    /\ answer # PyNone
    /\ Truthy(submit_url)
    /\ answer_payload' = AnswerPayload(email, secret, url, answer)
    /\ \E r \in PostResults :
           /\ submit_url.kind # "str" => r = "raises"
           /\ posts' = IF submit_url.kind = "str"
                       THEN Append(posts, [to |-> submit_url,
                                           json |-> answer_payload',
                                           result |-> r])
                       ELSE posts
           /\ outcome' = PostOutcome(r, submit_url, answer_payload')
    /\ pc' = "done"
    /\ UNCHANGED <<inputs, html, decoded, full_text, submit_url,
                   parsed_answer_from_json, file_link, answer, csv_resp,
                   renders, tried, source>>

Next ==
    \/ Shortcut
    \/ Render
    \/ Parse
    \/ FindFileLink
    \/ CsvPath
    \/ PdfPath
    \/ TablePath
    \/ JsonAnswerPath
    \/ NumericSumPath
    \/ GiveUp
    \/ NoSubmitUrl
    \/ Post

Spec == Init /\ [][Next]_vars

SpecText == InitText /\ [][Next]_vars

\* ================================================================= claims
Done == pc = "done"
Returned(field) == Done /\ field \in DOMAIN outcome

\* ---------------------------------------------------------------------- C1
\* C1: whenever the returned outcome holds an answer_payload, its email,
\* secret and url are the arguments of the call, whichever path gave the
\* answer and whether or not the POST succeeded.
C1_PayloadEchoesRequest ==
    Returned("answer_payload") =>
        /\ outcome.answer_payload.email = email
        /\ outcome.answer_payload.secret = secret
        /\ outcome.answer_payload.url = url

\* A run of the second caller whose answer came from the CSV file and whose
\* POST failed.
C1_Witness ==
    /\ Returned("answer_payload")
    /\ ~outcome.success
    /\ source = "csv"
    /\ posts # <<>>
    /\ email = "b@x.test"

\* ---------------------------------------------------------------------- C2
PathRank(p) ==
    CASE p = "csv" -> 1
      [] p = "pdf" -> 2
      [] p = "table" -> 3
      [] p = "json" -> 4
      [] p = "sum" -> 5

C2_OrderAndSource ==
    /\ \A i, j \in 1..Len(tried) :
           i < j => PathRank(tried[i]) < PathRank(tried[j])
    /\ answer # PyNone => tried # <<>> /\ source = tried[Len(tried)]
    /\ answer = PyNone => source = "none"

\* C2: the paths run in the order CSV, PDF, table, JSON answer, numeric sum;
\* once a path has given an answer no later path runs and the answer is not
\* overwritten, so the answer is that of the first path that succeeded.
C2_FirstMatchWins ==
    /\ []C2_OrderAndSource
    /\ [][answer # PyNone =>
              answer' = answer /\ tried' = tried /\ source' = source]_vars

\* The CSV path gave the answer although a table and a JSON answer were there.
C2_Witness ==
    /\ Done
    /\ tried = <<"csv">>
    /\ source = "csv"
    /\ html.tables # <<>>
    /\ parsed_answer_from_json # PyNone

\* ---------------------------------------------------------------------- C3
\* C3: no fault of a pipeline step escapes solve_quiz: every run ends by
\* returning an outcome with a success flag, and a message when it is false.
C3_NoFaultEscapes ==
    /\ pc # "raised"
    /\ Done => /\ "success" \in DOMAIN outcome
               /\ ~outcome.success => "message" \in DOMAIN outcome

\* ---------------------------------------------------------------------- C4
\* Where a URL match of the text starts: at a scheme followed by a character
\* that is no delimiter, outside every earlier match.
UrlStartsAt(text, i) ==
    /\ text[i] \in SchemeLexemes
    /\ i < Len(text)
    /\ text[i + 1] \notin Delimiters
    /\ ~\E k \in 1..(i - 1) :
           /\ text[k] \in SchemeLexemes
           /\ \A m \in (k + 1)..i : text[m] \notin Delimiters

\* The match that starts at i: up to the next delimiter.
UrlAt(text, i) ==
    SubSeq(text, i,
           CHOOSE e \in i..Len(text) :
               /\ \A m \in (i + 1)..e : text[m] \notin Delimiters
               /\ e = Len(text) \/ text[e + 1] \in Delimiters)

\* Lines 146-161 have run: the combined text holds at least its line feed.
Parsed == full_text # <<>>

NoJsonHint ==
    /\ ~Truthy(_first_url_from_jsonlike(decoded))
    /\ ~Truthy(_first_url_from_jsonlike(html.text))

\* C4: without a JSON hint the submit URL is the first URL of the combined
\* text (HTML, then decoded payload) that contains "submit" in any case,
\* also when URLs without it come earlier; the first URL if none contains
\* it; the empty string if the text has no URL.
C4_FirstSubmitUrlPreferred ==
    (Parsed /\ NoJsonHint) =>
        LET text == html.text \o <<"\n">> \o decoded
            starts == {i \in 1..Len(text) : UrlStartsAt(text, i)}
            submits == {i \in starts :
                           \E m \in 1..Len(UrlAt(text, i)) :
                               UrlAt(text, i)[m] \in {"submit", "SUBMIT"}}
        IN  /\ submit_url.kind = "str"
            /\ submits # {} =>
                   \E i \in submits :
                       /\ \A j \in submits : i <= j
                       /\ submit_url.s = UrlAt(text, i)
            /\ (submits = {} /\ starts # {}) =>
                   \E i \in starts :
                       /\ \A j \in starts : i <= j
                       /\ submit_url.s = UrlAt(text, i)
            /\ starts = {} => submit_url.s = <<>>

\* A URL without "submit" in the HTML, the chosen URL later, in the payload.
C4_Witness ==
    /\ Done
    /\ NoJsonHint
    /\ FindUrls(html.text, 1) # <<>>
    /\ ~HasSubmit(FindUrls(html.text, 1)[1])
    /\ FindUrls(decoded, 1) # <<>>
    /\ submit_url = PyStr(FindUrls(decoded, 1)[1])
    /\ HasSubmit(submit_url.s)

\* ---------------------------------------------------------------------- C5
PostRaised ==
    /\ Truthy(submit_url)
    /\ submit_url.kind = "str" => posts # <<>> /\ posts[1].result = "raises"
    /\ submit_url.kind # "str" => posts = <<>>

\* C5: a derived answer reaches the caller when delivery does not happen or
\* fails: without a submit URL the outcome is a failure with the message
\* "No submit URL detected" and the payload with the answer, and no POST is
\* made; when the POST raises the outcome is a failure with the payload that
\* was assembled for it.
C5_AnswerKeptWithoutDelivery ==
    (Done /\ answer # PyNone) =>
        /\ ~Truthy(submit_url) =>
               /\ outcome.success = FALSE
               /\ outcome.message = "No submit URL detected"
               /\ "answer_payload" \in DOMAIN outcome
               /\ outcome.answer_payload.answer = answer
               /\ posts = <<>>
        /\ PostRaised =>
               /\ outcome.success = FALSE
               /\ "answer_payload" \in DOMAIN outcome
               /\ outcome.answer_payload = answer_payload
               /\ outcome.answer_payload.answer = answer
               /\ \A i \in 1..Len(posts) : posts[i].json = outcome.answer_payload

C5_Witness ==
    /\ Done
    /\ answer # PyNone
    /\ PostRaised
    /\ posts # <<>>
    /\ source = "sum"

\* ---------------------------------------------------------------------- C6
\* The run went through every derivation path and none gave an answer.
DerivationFailed == Done /\ Parsed /\ answer = PyNone

Min(a, b) == IF a <= b THEN a ELSE b

\* C6: when no path gives an answer no POST is made, and the outcome is a
\* failure that holds the submit URL resolved before and the first 2000
\* characters of the combined text (all of it when it is shorter).
C6_DiagnosticOutcome ==
    DerivationFailed =>
        /\ posts = <<>>
        /\ outcome.success = FALSE
        /\ outcome.found_submit_url = submit_url
        /\ LET ex == outcome.sample_text_excerpt
               n == Len(ex.whole)
           IN  /\ n <= Len(full_text)
               /\ ex.whole = SubSeq(full_text, 1, n)
               /\ ex.part > 0 =>
                      n < Len(full_text) /\ ex.part < LexLen(full_text[n + 1])
               /\ CharLen(ex.whole) + ex.part
                      = Min(ExcerptLimit, CharLen(full_text))

\* A text longer than the excerpt, with a submit URL found in it.
C6_Witness ==
    /\ DerivationFailed
    /\ CharLen(full_text) > ExcerptLimit
    /\ Truthy(submit_url)
    /\ outcome.sample_text_excerpt.part > 0

\* ---------------------------------------------------------------------- C7
\* C7: when rendering fails on the scheme of the URL, the other scheme is
\* tried once; a fetch failure is returned only after both have failed.
C7_AlternateSchemeTried ==
    (Done /\ outcome = RenderFailureOutcome) =>
        /\ serverUp = {}
        /\ Len(renders) = 2

\* ---------------------------------------------------------------------- C8
\* The literals the claim counts: [-+]?(\d*\.\d+|\d+), the sign belonging to
\* an integer as to a decimal.
SignedMatchEnd(t, i) ==
    LET s == IF t[i] \in Signs /\ i < Len(t) THEN i + 1 ELSE i
    IN  IF DecimalMatchEnd(t, i) # 0 THEN DecimalMatchEnd(t, i)
        ELSE IntegerMatchEnd(t, s)

RECURSIVE SignedSum(_, _)
SignedSum(t, i) ==
    IF i > Len(t) THEN 0
    ELSE IF SignedMatchEnd(t, i) # 0
         THEN FloatOfLiteral(SubSeq(t, i, SignedMatchEnd(t, i)))
              + SignedSum(t, SignedMatchEnd(t, i) + 1)
         ELSE SignedSum(t, i + 1)

HasNumber(t) == \E i \in 1..Len(t) : t[i] \in Digits

NoOtherSource ==
    /\ \A i \in 1..Len(html.links) :
           ExtLower(html.links[i].ext) \notin {".csv", ".pdf"}
    /\ html.tables = <<>>
    /\ parsed_answer_from_json = PyNone

\* C8: with a number in the decoded payload and no CSV, PDF, table or JSON
\* answer, the answer is the sum of the literals of the payload, each with
\* its sign, the thousands commas removed.
C8_SumOfSignedLiterals ==
    (pc \in {"finish", "done"} /\ HasNumber(decoded) /\ NoOtherSource) =>
        answer = PyFloat(SignedSum(StripCommas(decoded), 1))

\* ---------------------------------------------------------------------- C9
ClaimedAliases ==
    <<"value", "Value", "val", "amount", "Amount", "total", "sum">>

\* The sum the claim names: the first alias present, else the first numeric
\* column.
ClaimedCsvSum(df) ==
    LET present == {k \in 1..Len(ClaimedAliases) :
                       ColumnIndex(df, ClaimedAliases[k]) # 0}
        k == CHOOSE a \in present : \A b \in present : a <= b
    IN  IF present # {} /\ df[ColumnIndex(df, ClaimedAliases[k])].numeric
        THEN PyFloat(df[ColumnIndex(df, ClaimedAliases[k])].sum * Scale)
        ELSE SumFirstNumericColumn(df)

HasCsvLink ==
    \E i \in 1..Len(html.links) :
        ExtLower(html.links[i].ext) = ".csv" /\ ~UrlJoinRaises(html.links[i])

\* C9: a link whose path ends in .csv is fetched whatever file links come
\* before it, and when the fetch and the parse succeed the answer is the sum
\* of the first alias column (value, Value, val, amount, Amount, total, sum)
\* or of the first numeric column.
C9_CsvLinkSummed ==
    (pc = "pdf" /\ HasCsvLink) =>
        /\ tried = <<"csv">>
        /\ csv_resp.ok => answer = ClaimedCsvSum(csv_resp.df)

\* --------------------------------------------------------------------- C10
PostsWellFormed ==
    /\ Len(posts) <= 1
    /\ posts # <<>> => answer # PyNone /\ Truthy(submit_url)

DeliveredByPost ==
    /\ renders # <<>>
    /\ html # NoDoc
    /\ Len(posts) = 1
    /\ posts[1].result # "raises"
    /\ posts[1].to = outcome.submit_url
    /\ posts[1].json = outcome.answer_payload

\* C10 as claimed: for every URL, success only after the page was rendered
\* and one POST of the payload to the returned submit URL completed.
C10_SuccessOnlyAfterPost ==
    /\ PostsWellFormed
    /\ (Done /\ "success" \in DOMAIN outcome /\ outcome.success)
           => DeliveredByPost

\* C10 as amended: the same for every URL that does not contain
\* "example-quiz.com"; for a URL that contains it success is returned with
\* the canned payload, with no rendering and no POST.
C10_SuccessOnlyAfterPostUnlessCanned ==
    /\ PostsWellFormed
    /\ (Done /\ "success" \in DOMAIN outcome /\ outcome.success) =>
           IF IsCannedUrl(url)
           THEN renders = <<>> /\ posts = <<>>
           ELSE DeliveredByPost
    /\ (Done /\ IsCannedUrl(url)) => outcome.success

C10_Witness ==
    /\ Done
    /\ ~IsCannedUrl(url)
    /\ outcome.success
    /\ Len(posts) = 1
    /\ source = "json"
====
